---- MODULE Spec2Model ----
(***************************************************************************)
(* Photo lifecycle of the photography portfolio backend: the request       *)
(* handlers under terraform/photography-app/lambda and                     *)
(* terraform/terraform/lambda, the metadata table (DynamoDB) and the       *)
(* photo bucket (S3) they share.  Every handler is an invocation that      *)
(* occupies a slot and performs its store calls one step at a time; a      *)
(* store call may fail.                                                    *)
(***************************************************************************)
EXTENDS Integers, Sequences, FiniteSets, TLC

VARIABLES
    table,        \* metadata store: photoId -> item, for the ids that have an item
    bucket,       \* object store: the set of keys that hold an object
    events,       \* S3 ObjectCreated notifications not yet delivered
    issued,       \* photo ids generate_upload_url has handed out and that were uploaded
    clock,        \* datetime.utcnow(); it has advanced whenever a write has been committed
    concurrency,  \* how many invocations the platform runs at the same time
    settings,     \* site settings store: settingId -> item, for the settings that were saved
    crashed,      \* the invocation the platform last lost in mid-run, Idle when none
    resize,       \* one resize_image call: its arguments and, once it ran, its result
    http,         \* one request to one handler: its Origin header and the CORS header answered
    mail,         \* the contact form: its environment, one submission and the emails sent
    inv           \* the invocation slots

vars == <<table, bucket, events, issued, clock, concurrency, settings, crashed, resize, http, mail, inv>>

-----------------------------------------------------------------------------
(* Bounds of the model *)

MaxClock == 5

\* widths and heights of images, in pixels, and target widths
MaxDim == 6

PhotoIds == {1}

Procs == {1, 2}

-----------------------------------------------------------------------------
(* Object keys: f"{prefix}/{photo_id}.{ext}" is <<prefix, photo_id, ext>> *)

Key(prefix, id, ext) == <<prefix, id, ext>>

NoKey == <<>>

\* source_key.split('.')[-1]
Ext(key) == key[3]

\* os.path.basename(source_key)
basename(key) == <<key[2], key[3]>>

\* f"{prefix}/{filename}"
KeyOfFile(prefix, filename) == <<prefix, filename[1], filename[2]>>

\* the extensions generate_upload_url hands out
ext_map == {"jpg", "png"}

\* the extensions create_photo probes, in order
ProbeExts == <<"jpg", "jpeg", "png", "webp">>

-----------------------------------------------------------------------------
(* Items of the metadata table.  An attribute the item does not have is    *)
(* NoStatus / NoKey / NoTime / NoUser.                                      *)

NoStatus == ""

NoTime == 0

NoUser == "none"

AdminUser == "admin"

NoItem ==
    [status |-> NoStatus, originalKey |-> NoKey, publishedAt |-> NoTime,
     archivedAt |-> NoTime, updatedAt |-> NoTime, uploadedBy |-> NoUser]

Exists(id) == id \in DOMAIN table

\* table.put_item(Item=item): replaces the whole item
PutItem(id, item) == [i \in DOMAIN table \cup {id} |-> IF i = id THEN item ELSE table[i]]

\* table.update_item(Key, SET ...): changes the item, creating it when absent
Current(id) == IF Exists(id) THEN table[id] ELSE NoItem

\* table.delete_item(Key)
DeleteItem(id) == [i \in DOMAIN table \ {id} |-> table[i]]

-----------------------------------------------------------------------------
(* Invocation slots *)

NoResp == [statusCode |-> 0, errorType |-> "", status |-> "", photos |-> {},
           succeeded |-> <<>>, failed |-> <<>>]

Idle ==
    [op |-> "none", pc |-> "idle", photoId |-> 0, ids |-> <<>>, updates |-> <<>>,
     settingId |-> "", reqStatus |-> "",
     auth |-> FALSE, item |-> NoItem, now |-> 0, idx |-> 0,
     copied |-> FALSE, srcDeleted |-> FALSE, thumbDeleted |-> FALSE,
     displayDeleted |-> FALSE, before |-> {}, resp |-> NoResp]

Free(p) == inv[p].pc \in {"idle", "done"}

InFlight == {p \in Procs : ~Free(p)}

\* the platform gives an arriving request the first free slot
CanStart(p) ==
    /\ Free(p)
    /\ \A q \in Procs : q < p => ~Free(q)
    /\ Cardinality(InFlight) < concurrency

error_response(code, etype) ==
    [NoResp EXCEPT !.statusCode = code, !.errorType = etype]

success_response(code, st) ==
    [NoResp EXCEPT !.statusCode = code, !.status = st]

Finish(p, resp) == [inv EXCEPT ![p].pc = "done", ![p].resp = resp]

Begin(p, op, id, st, au) ==
    [Idle EXCEPT !.op = op, !.pc = "run", !.photoId = id, !.reqStatus = st,
                 !.auth = au, !.now = clock, !.before = bucket]

-----------------------------------------------------------------------------
(* Object store calls *)

\* s3_client.copy_object succeeds only for an existing source, and S3 refuses
\* to copy an object onto itself
CopyPossible(src, dst) == src \in bucket /\ src # dst

-----------------------------------------------------------------------------
(* Initial state: empty table and bucket, one invocation at a time *)

\* no resize_image call
NoResize == [original_width |-> 0, original_height |-> 0, max_width |-> 0, called |-> FALSE,
             raised |-> FALSE, new_width |-> 0, new_height |-> 0]

\* no request whose CORS header is observed
NoHttp == [handler |-> "none", origin |-> "", answered |-> FALSE, allowOrigin |-> ""]

\* no contact form submission; the environment has both addresses
NoMail ==
    [pc |-> "idle",
     body |-> [json |-> FALSE, name |-> <<>>, email |-> <<>>, subject |-> <<>>,
               message |-> <<>>],
     RECIPIENT_EMAILS |-> <<"o", "@", "s", ".", "c">>,
     SENDER_EMAIL |-> <<"n", "@", "s", ".", "c">>, ToAddresses |-> <<>>, calls |-> 0,
     sent |-> 0, statusCode |-> 0, errorType |-> ""]

\* no site setting saved, no invocation lost, no resize_image call, no CORS
\* exchange, no contact form submission
InitAside ==
    /\ settings = <<>>
    /\ crashed = Idle
    /\ resize = NoResize
    /\ http = NoHttp
    /\ mail = NoMail

InitStores ==
    /\ table = <<>>
    /\ bucket = {}
    /\ events = {}
    /\ issued = {}
    /\ clock = 1
    /\ inv = [p \in Procs |-> Idle]

\* the stores right after a first upload went through generate_thumbnail and
\* create_photo
InitCreated(ext) ==
    /\ table = (1 :> [status |-> "pending", originalKey |-> Key("uploads", 1, ext),
                      publishedAt |-> NoTime, archivedAt |-> NoTime,
                      updatedAt |-> 1, uploadedBy |-> AdminUser])
    /\ bucket = {Key("uploads", 1, ext), Key("thumbnails", 1, ext), Key("display", 1, ext)}
    /\ events = {}
    /\ issued = {1}
    /\ clock = 2
    /\ inv = [p \in Procs |-> Idle]

Init ==
    /\ InitStores \/ \E ext \in ext_map : InitCreated(ext)
    /\ concurrency = 1
    /\ InitAside

\* the stores when update_photo has last edited the title of that photo, at time t
InitEdited(ext, t) ==
    /\ table = (1 :> [status |-> "pending", originalKey |-> Key("uploads", 1, ext),
                      publishedAt |-> NoTime, archivedAt |-> NoTime,
                      updatedAt |-> t, uploadedBy |-> AdminUser])
    /\ bucket = {Key("uploads", 1, ext), Key("thumbnails", 1, ext), Key("display", 1, ext)}

\* the stores when update_photo has published that photo at time t
InitPublished(ext, t) ==
    /\ table = (1 :> [status |-> "published", originalKey |-> Key("originals", 1, ext),
                      publishedAt |-> t, archivedAt |-> NoTime,
                      updatedAt |-> t, uploadedBy |-> AdminUser])
    /\ bucket = {Key("uploads", 1, ext), Key("originals", 1, ext),
                 Key("thumbnails", 1, ext), Key("display", 1, ext)}

\* the stores when delete_photo has archived the pending photo at time t
InitArchived(ext, t) ==
    /\ table = (1 :> [status |-> "archived", originalKey |-> Key("archive", 1, ext),
                      publishedAt |-> NoTime, archivedAt |-> t,
                      updatedAt |-> t, uploadedBy |-> AdminUser])
    /\ bucket = {Key("archive", 1, ext), Key("thumbnails", 1, ext), Key("display", 1, ext)}

\* two invocations at a time, on a photo that exists; the time left allows
\* the requests of one race
InitConc ==
    /\ \E ext \in ext_map :
          \/ InitEdited(ext, MaxClock - 2)
          \/ InitPublished(ext, MaxClock - 2)
          \/ InitArchived(ext, MaxClock - 2)
    /\ events = {}
    /\ issued = {1}
    /\ clock = MaxClock - 1
    /\ inv = [p \in Procs |-> Idle]
    /\ concurrency = 2
    /\ InitAside

-----------------------------------------------------------------------------
(* The browser PUTs the file to the pre-signed URL of generate_upload_url:  *)
(* a fresh uuid4 and the extension of the declared MIME type.  S3 then      *)
(* notifies generate_thumbnail.                                             *)

Upload(id, ext) ==
    /\ id \notin issued
    /\ \A j \in PhotoIds : j < id => j \in issued
    /\ ext \in ext_map
    /\ issued' = issued \cup {id}
    /\ bucket' = bucket \cup {Key("uploads", id, ext)}
    /\ events' = events \cup {Key("uploads", id, ext)}
    /\ UNCHANGED <<table, clock, concurrency, settings, crashed, resize, http, mail, inv>>

-----------------------------------------------------------------------------
(* generate_thumbnail *)

IsProcessed(key) == key[1] \in {"thumbnails", "display"}

\* source_key.lower().endswith(('.jpg', '.jpeg', '.png', '.webp', '.avif'))
IsImage(key) == Ext(key) \in {"jpg", "jpeg", "png", "webp", "avif"}

\* a generator that takes every image key for an original
GenerateThumbnailStartEager(p, key) ==
    /\ CanStart(p)
    /\ key \in events
    /\ events' = events \ {key}
    /\ inv' = [inv EXCEPT ![p] =
          LET me == [Begin(p, "generate_thumbnail", key[2], "", FALSE)
                       EXCEPT !.item = [NoItem EXCEPT !.originalKey = key]]
          IN  IF ~IsImage(key)
                THEN [me EXCEPT !.pc = "done", !.resp = success_response(200, "skipped")]
              ELSE IF key \in bucket
                THEN [me EXCEPT !.pc = "gt_put_thumbnail"]
              ELSE [me EXCEPT !.pc = "done", !.resp = error_response(500, "Error")]]
    /\ UNCHANGED <<table, bucket, issued, clock, concurrency, settings, crashed, resize, http, mail>>

\* parse the S3 event, skip keys that are no image and processed keys,
\* download the original
GenerateThumbnailStart(p, key) ==
    /\ CanStart(p)
    /\ key \in events
    /\ events' = events \ {key}
    /\ inv' = [inv EXCEPT ![p] =
          LET me == [Begin(p, "generate_thumbnail", key[2], "", FALSE)
                       EXCEPT !.item = [NoItem EXCEPT !.originalKey = key]]
          IN  IF ~IsImage(key)
                THEN [me EXCEPT !.pc = "done", !.resp = success_response(200, "skipped")]
              ELSE IF IsProcessed(key)
                THEN [me EXCEPT !.pc = "done", !.resp = success_response(200, "skipped")]
              ELSE IF key \in bucket
                THEN [me EXCEPT !.pc = "gt_put_thumbnail"]
              ELSE [me EXCEPT !.pc = "done", !.resp = error_response(500, "Error")]]
    /\ UNCHANGED <<table, bucket, issued, clock, concurrency, settings, crashed, resize, http, mail>>

\* s3_client.put_object(Key=thumbnail_key)
GenerateThumbnailPutThumbnail(p) ==
    /\ inv[p].pc = "gt_put_thumbnail"
    /\ bucket' = bucket \cup {KeyOfFile("thumbnails", basename(inv[p].item.originalKey))}
    /\ inv' = [inv EXCEPT ![p].pc = "gt_put_display"]
    /\ UNCHANGED <<table, events, issued, clock, concurrency, settings, crashed, resize, http, mail>>

\* s3_client.put_object(Key=display_key)
GenerateThumbnailPutDisplay(p) ==
    /\ inv[p].pc = "gt_put_display"
    /\ bucket' = bucket \cup {KeyOfFile("display", basename(inv[p].item.originalKey))}
    /\ inv' = Finish(p, success_response(200, "created"))
    /\ UNCHANGED <<table, events, issued, clock, concurrency, settings, crashed, resize, http, mail>>

-----------------------------------------------------------------------------
(* create_photo *)

\* for ext in [...]: head_object(uploads/<id>.<ext>); the first that exists
RECURSIVE FindUpload(_, _)
FindUpload(id, i) ==
    IF i > Len(ProbeExts) THEN NoKey
    ELSE IF Key("uploads", id, ProbeExts[i]) \in bucket
      THEN Key("uploads", id, ProbeExts[i])
    ELSE FindUpload(id, i + 1)

\* path and body values that are no version-4 UUID
MalformedIds == {-1}

\* UUID_PATTERN.match(photo_id)
UUID_PATTERN(photo_id) == photo_id \notin MalformedIds

NewItem(original_key, uploaded_by, now) ==
    [status |-> "pending", originalKey |-> original_key, publishedAt |-> NoTime,
     archivedAt |-> NoTime, updatedAt |-> now, uploadedBy |-> uploaded_by]

\* validate, then look for the upload
CreatePhotoStart(p, id) ==
    /\ CanStart(p)
    /\ clock < MaxClock
    /\ inv' = [inv EXCEPT ![p] =
          LET me == Begin(p, "create_photo", id, "", TRUE)
              original_key == FindUpload(id, 1)
          IN  IF ~UUID_PATTERN(id)
                THEN [me EXCEPT !.pc = "done", !.resp = error_response(400, "ValidationError")]
              ELSE IF original_key = NoKey
                THEN [me EXCEPT !.pc = "done", !.resp = error_response(404, "NotFoundError")]
              ELSE [me EXCEPT !.pc = "cp_put_item",
                              !.item = NewItem(original_key, AdminUser, clock)]]
    /\ UNCHANGED <<table, bucket, events, issued, clock, concurrency, settings, crashed, resize, http, mail>>

CreatePhotoPutItem(p, ok) ==
    /\ inv[p].pc = "cp_put_item"
    /\ IF ok
         THEN /\ table' = PutItem(inv[p].photoId, inv[p].item)
              /\ clock' = clock + 1
              /\ inv' = Finish(p, success_response(201, "pending"))
         ELSE /\ UNCHANGED <<table, clock>>
              /\ inv' = Finish(p, error_response(500, "InternalError"))
    /\ UNCHANGED <<bucket, events, issued, concurrency, settings, crashed, resize, http, mail>>

-----------------------------------------------------------------------------
(* update_photo (terraform/terraform/lambda/update_photo) *)

\* the statuses a request body may name; "" is a body without a status field
RequestStatuses == {"", "pending", "published", "archived"}

\* new_status = body.get('status', current_status)
new_status(me) == IF me.reqStatus = "" THEN me.item.status ELSE me.reqStatus

\* a destination key that always takes the .jpg extension
UpdateDestKeyJpg(me) ==
    IF new_status(me) = "published"
      THEN Key("originals", me.photoId, "jpg")
      ELSE Key("archive", me.photoId, "jpg")

\* the key the binary is copied to on a status change
UpdateDestKey(me) ==
    IF new_status(me) = "published"
      THEN Key("originals", me.photoId, Ext(me.item.originalKey))
      ELSE Key("archive", me.photoId, Ext(me.item.originalKey))

\* get_item, then the branch on new_status != current_status
UpdatePhotoStart(p, id, st) ==
    /\ CanStart(p)
    /\ clock < MaxClock
    /\ inv' = [inv EXCEPT ![p] =
          LET me == [Begin(p, "update_photo", id, st, TRUE) EXCEPT !.item = Current(id)]
          IN  IF ~Exists(id)
                THEN [me EXCEPT !.pc = "done", !.resp = error_response(404, "NotFoundError")]
              ELSE IF me.item.status = NoStatus
                THEN [me EXCEPT !.pc = "done", !.resp = error_response(400, "ValidationError")]
              ELSE IF new_status(me) # me.item.status
                      /\ new_status(me) \in {"published", "archived"}
                THEN IF me.item.originalKey = NoKey
                       THEN [me EXCEPT !.pc = "done",
                                       !.resp = error_response(400, "ValidationError")]
                       ELSE [me EXCEPT !.pc = "up_copy_object"]
              ELSE [me EXCEPT !.pc = "up_update_item"]]
    /\ UNCHANGED <<table, bucket, events, issued, clock, concurrency, settings, crashed, resize, http, mail>>

\* a copy step whose failure is logged and not raised
UpdatePhotoCopyObjectSwallowed(p, ok) ==
    /\ inv[p].pc = "up_copy_object"
    /\ LET me == inv[p]
           source_key == me.item.originalKey
           dest_key == UpdateDestKey(me)
       IN  IF ok /\ CopyPossible(source_key, dest_key)
             THEN /\ bucket' = bucket \cup {dest_key}
                  /\ inv' = [inv EXCEPT ![p].pc = "up_update_item", ![p].copied = TRUE]
             ELSE /\ bucket' = bucket
                  /\ inv' = [inv EXCEPT ![p].pc = "up_update_item"]
    /\ UNCHANGED <<table, events, issued, clock, concurrency, settings, crashed, resize, http, mail>>

\* s3_client.copy_object(source_key -> dest_key); the source is not removed
UpdatePhotoCopyObject(p, ok) ==
    /\ inv[p].pc = "up_copy_object"
    /\ LET me == inv[p]
           source_key == me.item.originalKey
           dest_key == UpdateDestKey(me)
       IN  IF source_key \notin bucket
             THEN /\ bucket' = bucket
                  /\ inv' = Finish(p, error_response(404, "NotFoundError"))
           ELSE IF ok /\ CopyPossible(source_key, dest_key)
             THEN /\ bucket' = bucket \cup {dest_key}
                  /\ inv' = [inv EXCEPT ![p].pc = "up_update_item", ![p].copied = TRUE]
           ELSE /\ bucket' = bucket
                /\ inv' = Finish(p, error_response(500, "InternalError"))
    /\ UNCHANGED <<table, events, issued, clock, concurrency, settings, crashed, resize, http, mail>>

\* SET clauses that stamp publishedAt for every request naming status published
UpdatedItemStamped(me, cur) ==
    LET stamped == IF new_status(me) = "published"
                     THEN [cur EXCEPT !.publishedAt = me.now]
                     ELSE cur
    IN  IF ~me.copied
          THEN [stamped EXCEPT !.updatedAt = me.now]
        ELSE IF new_status(me) = "published"
          THEN [stamped EXCEPT !.updatedAt = me.now, !.status = "published",
                               !.originalKey = UpdateDestKey(me)]
        ELSE [stamped EXCEPT !.updatedAt = me.now, !.status = "archived",
                             !.originalKey = UpdateDestKey(me), !.archivedAt = me.now]

\* the item update_item writes: the SET clauses of update_expr
UpdatedItem(me, cur) ==
    IF ~me.copied
      THEN [cur EXCEPT !.updatedAt = me.now]
    ELSE IF new_status(me) = "published"
      THEN [cur EXCEPT !.updatedAt = me.now, !.status = "published",
                       !.originalKey = UpdateDestKey(me), !.publishedAt = me.now]
    ELSE [cur EXCEPT !.updatedAt = me.now, !.status = "archived",
                     !.originalKey = UpdateDestKey(me), !.archivedAt = me.now]

UpdatePhotoUpdateItem(p, ok) ==
    /\ inv[p].pc = "up_update_item"
    /\ LET me == inv[p]
       IN  IF ok
             THEN /\ table' = PutItem(me.photoId, UpdatedItem(me, Current(me.photoId)))
                  /\ clock' = clock + 1
                  /\ inv' = Finish(p, success_response(200, new_status(me)))
             ELSE /\ UNCHANGED <<table, clock>>
                  /\ inv' = Finish(p, error_response(500, "InternalError"))
    /\ UNCHANGED <<bucket, events, issued, concurrency, settings, crashed, resize, http, mail>>

-----------------------------------------------------------------------------
(* bulk_update_photos *)

\* the photoIds lists of a request body
BulkIdLists ==
    {<<id>> : id \in PhotoIds} \cup {l \in PhotoIds \X PhotoIds : l[1] # l[2]}

\* len(photo_ids) > 100 is refused
MaxBatch == 100

\* the updates objects of a request body: a gallery, and a status or none
BulkUpdates ==
    {[gallery |-> "Landscapes"]}
    \cup {[gallery |-> "Landscapes", status |-> st] : st \in RequestStatuses \ {""}}

\* updates['status'], "" for an updates object without it
StatusOf(updates) == IF "status" \in DOMAIN updates THEN updates.status ELSE ""

\* a handler that loops over photo_ids whatever their number
BulkUpdateStartUnbounded(p, ids, updates, au) ==
    /\ CanStart(p)
    /\ clock < MaxClock
    /\ inv' = [inv EXCEPT ![p] =
          LET me == [Begin(p, "bulk_update_photos", 0, StatusOf(updates), au)
                       EXCEPT !.ids = ids, !.updates = updates]
          IN  IF ~au
                THEN [me EXCEPT !.pc = "done", !.resp = error_response(401, "UnauthorizedError")]
              ELSE IF Len(ids) = 0 \/ DOMAIN updates = {}
                THEN [me EXCEPT !.pc = "done", !.resp = error_response(400, "ValidationError")]
              ELSE [me EXCEPT !.pc = "bu_update_item", !.idx = 1]]
    /\ UNCHANGED <<table, bucket, events, issued, clock, concurrency, settings, crashed, resize, http, mail>>

\* authentication, then validation of photoIds and updates
BulkUpdateStart(p, ids, updates, au) ==
    /\ CanStart(p)
    /\ clock < MaxClock
    /\ inv' = [inv EXCEPT ![p] =
          LET me == [Begin(p, "bulk_update_photos", 0, StatusOf(updates), au)
                       EXCEPT !.ids = ids, !.updates = updates]
          IN  IF ~au
                THEN [me EXCEPT !.pc = "done", !.resp = error_response(401, "UnauthorizedError")]
              ELSE IF Len(ids) = 0
                THEN [me EXCEPT !.pc = "done", !.resp = error_response(400, "ValidationError")]
              ELSE IF DOMAIN updates = {}
                THEN [me EXCEPT !.pc = "done", !.resp = error_response(400, "ValidationError")]
              ELSE IF Len(ids) > MaxBatch
                THEN [me EXCEPT !.pc = "done", !.resp = error_response(400, "ValidationError")]
              ELSE [me EXCEPT !.pc = "bu_update_item", !.idx = 1]]
    /\ UNCHANGED <<table, bucket, events, issued, clock, concurrency, settings, crashed, resize, http, mail>>

\* SET #status = :status, #updatedAt = :updatedAt,
\*     #publishedAt = if_not_exists(#publishedAt, :publishedAt)
BulkUpdatedItem(me, cur) ==
    LET a == [cur EXCEPT !.updatedAt = me.now]
        b == IF me.reqStatus = "" THEN a ELSE [a EXCEPT !.status = me.reqStatus]
    IN  IF me.reqStatus = "published" /\ cur.publishedAt = NoTime
          THEN [b EXCEPT !.publishedAt = me.now]
          ELSE b

\* a loop over photo_ids that gives up at the first update_item that fails
BulkUpdateItemAbort(p, ok) ==
    /\ inv[p].pc = "bu_update_item"
    /\ LET me == inv[p]
           photo_id == me.ids[me.idx]
           resp == [me.resp EXCEPT !.succeeded = Append(me.resp.succeeded, photo_id)]
       IN  IF ok
             THEN /\ table' = PutItem(photo_id, BulkUpdatedItem(me, Current(photo_id)))
                  /\ clock' = clock + 1
                  /\ inv' = IF me.idx < Len(me.ids)
                              THEN [inv EXCEPT ![p].idx = me.idx + 1, ![p].resp = resp]
                              ELSE Finish(p, [resp EXCEPT !.statusCode = 200])
             ELSE /\ UNCHANGED <<table, clock>>
                  /\ inv' = Finish(p, [me.resp EXCEPT !.statusCode = 500,
                                                      !.errorType = "InternalError"])
    /\ UNCHANGED <<bucket, events, issued, concurrency, settings, crashed, resize, http, mail>>

\* one turn of the loop over photo_ids
BulkUpdateItem(p, ok) ==
    /\ inv[p].pc = "bu_update_item"
    /\ LET me == inv[p]
           photo_id == me.ids[me.idx]
           succeeded == IF ok THEN Append(me.resp.succeeded, photo_id) ELSE me.resp.succeeded
           failed == IF ok THEN me.resp.failed ELSE Append(me.resp.failed, photo_id)
           resp == [me.resp EXCEPT !.succeeded = succeeded, !.failed = failed]
       IN  /\ IF ok
                THEN /\ table' = PutItem(photo_id, BulkUpdatedItem(me, Current(photo_id)))
                     /\ clock' = clock + 1
                ELSE UNCHANGED <<table, clock>>
           /\ inv' = IF me.idx < Len(me.ids)
                       THEN [inv EXCEPT ![p].idx = me.idx + 1, ![p].resp = resp]
                       ELSE Finish(p, [resp EXCEPT !.statusCode = 200])
    /\ UNCHANGED <<bucket, events, issued, concurrency, settings, crashed, resize, http, mail>>

-----------------------------------------------------------------------------
(* delete_photo (terraform/photography-app/lambda/delete_photo) *)

thumbnail_key(source_key) == KeyOfFile("thumbnails", basename(source_key))

display_key(source_key) == KeyOfFile("display", basename(source_key))

ArchiveKey(me) == Key("archive", me.photoId, Ext(me.item.originalKey))

\* get_item and the branch on current_status
DeletePhotoStart(p, id) ==
    /\ CanStart(p)
    /\ clock < MaxClock
    /\ inv' = [inv EXCEPT ![p] =
          LET me == [Begin(p, "delete_photo", id, "", TRUE) EXCEPT !.item = Current(id)]
          IN  IF ~Exists(id)
                THEN [me EXCEPT !.pc = "done", !.resp = error_response(404, "NotFoundError")]
              ELSE IF me.item.originalKey = NoKey
                THEN [me EXCEPT !.pc = "done", !.resp = error_response(400, "ValidationError")]
              ELSE IF me.item.status = "archived"
                THEN [me EXCEPT !.pc = "dp_delete_source"]
              ELSE [me EXCEPT !.pc = "dp_copy_object"]]
    /\ UNCHANGED <<table, bucket, events, issued, clock, concurrency, settings, crashed, resize, http, mail>>

\* permanent delete: s3_client.delete_object(Key=source_key)
DeletePhotoDeleteSource(p, ok) ==
    /\ inv[p].pc = "dp_delete_source"
    /\ IF ok
         THEN /\ bucket' = bucket \ {inv[p].item.originalKey}
              /\ inv' = [inv EXCEPT ![p].pc = "dp_delete_thumbnail", ![p].srcDeleted = TRUE]
         ELSE /\ bucket' = bucket
              /\ inv' = Finish(p, error_response(500, "InternalError"))
    /\ UNCHANGED <<table, events, issued, clock, concurrency, settings, crashed, resize, http, mail>>

\* try: delete_object(thumbnail_key) except: print a warning
DeletePhotoDeleteThumbnail(p, ok) ==
    /\ inv[p].pc = "dp_delete_thumbnail"
    /\ bucket' = IF ok THEN bucket \ {thumbnail_key(inv[p].item.originalKey)} ELSE bucket
    /\ inv' = [inv EXCEPT ![p].pc = "dp_delete_display", ![p].thumbDeleted = ok]
    /\ UNCHANGED <<table, events, issued, clock, concurrency, settings, crashed, resize, http, mail>>

\* a display removal that names the thumbnail key a second time
DeletePhotoDeleteDisplayPasted(p, ok) ==
    /\ inv[p].pc = "dp_delete_display"
    /\ bucket' = IF ok THEN bucket \ {thumbnail_key(inv[p].item.originalKey)} ELSE bucket
    /\ inv' = [inv EXCEPT ![p].pc = "dp_delete_item", ![p].displayDeleted = ok]
    /\ UNCHANGED <<table, events, issued, clock, concurrency, settings, crashed, resize, http, mail>>

\* try: delete_object(display_key) except: print a warning
DeletePhotoDeleteDisplay(p, ok) ==
    /\ inv[p].pc = "dp_delete_display"
    /\ bucket' = IF ok THEN bucket \ {display_key(inv[p].item.originalKey)} ELSE bucket
    /\ inv' = [inv EXCEPT ![p].pc = "dp_delete_item", ![p].displayDeleted = ok]
    /\ UNCHANGED <<table, events, issued, clock, concurrency, settings, crashed, resize, http, mail>>

\* table.delete_item(Key={'photoId': photo_id}), without a condition
DeletePhotoDeleteItem(p, ok) ==
    /\ inv[p].pc = "dp_delete_item"
    /\ IF ok
         THEN /\ table' = DeleteItem(inv[p].photoId)
              /\ clock' = clock + 1
              /\ inv' = Finish(p, success_response(200, "deleted"))
         ELSE /\ UNCHANGED <<table, clock>>
              /\ inv' = Finish(p, error_response(500, "InternalError"))
    /\ UNCHANGED <<bucket, events, issued, concurrency, settings, crashed, resize, http, mail>>

\* soft delete: copy the original to archive/
DeletePhotoCopyObject(p, ok) ==
    /\ inv[p].pc = "dp_copy_object"
    /\ LET source_key == inv[p].item.originalKey
           dest_key == ArchiveKey(inv[p])
       IN  IF source_key \notin bucket
             THEN /\ bucket' = bucket
                  /\ inv' = Finish(p, error_response(404, "NotFoundError"))
           ELSE IF ok /\ CopyPossible(source_key, dest_key)
             THEN /\ bucket' = bucket \cup {dest_key}
                  /\ inv' = [inv EXCEPT ![p].pc = "dp_delete_original", ![p].copied = TRUE]
           ELSE /\ bucket' = bucket
                /\ inv' = Finish(p, error_response(500, "InternalError"))
    /\ UNCHANGED <<table, events, issued, clock, concurrency, settings, crashed, resize, http, mail>>

\* try: delete_object(source_key) except: print a warning
DeletePhotoDeleteOriginal(p, ok) ==
    /\ inv[p].pc = "dp_delete_original"
    /\ bucket' = IF ok THEN bucket \ {inv[p].item.originalKey} ELSE bucket
    /\ inv' = [inv EXCEPT ![p].pc = "dp_update_item", ![p].srcDeleted = ok]
    /\ UNCHANGED <<table, events, issued, clock, concurrency, settings, crashed, resize, http, mail>>

\* SET #status = archived, originalKey = dest_key, archivedAt = now, updatedAt = now
ArchivedItem(me, cur) ==
    [cur EXCEPT !.status = "archived", !.originalKey = ArchiveKey(me),
                !.archivedAt = me.now, !.updatedAt = me.now]

DeletePhotoUpdateItem(p, ok) ==
    /\ inv[p].pc = "dp_update_item"
    /\ LET me == inv[p]
       IN  IF ok
             THEN /\ table' = PutItem(me.photoId, ArchivedItem(me, Current(me.photoId)))
                  /\ clock' = clock + 1
                  /\ inv' = Finish(p, success_response(200, "archived"))
             ELSE /\ UNCHANGED <<table, clock>>
                  /\ inv' = Finish(p, error_response(500, "InternalError"))
    /\ UNCHANGED <<bucket, events, issued, concurrency, settings, crashed, resize, http, mail>>

-----------------------------------------------------------------------------
(* delete_photo (terraform/terraform/lambda/delete_photo): always a soft delete *)

DeletePhotoV1Start(p, id) ==
    /\ CanStart(p)
    /\ clock < MaxClock
    /\ inv' = [inv EXCEPT ![p] =
          LET me == [Begin(p, "delete_photo_v1", id, "", TRUE) EXCEPT !.item = Current(id)]
          IN  IF ~Exists(id)
                THEN [me EXCEPT !.pc = "done", !.resp = error_response(404, "NotFoundError")]
              ELSE IF me.item.originalKey = NoKey
                THEN [me EXCEPT !.pc = "done", !.resp = error_response(400, "ValidationError")]
              ELSE [me EXCEPT !.pc = "d1_copy_object"]]
    /\ UNCHANGED <<table, bucket, events, issued, clock, concurrency, settings, crashed, resize, http, mail>>

DeletePhotoV1CopyObject(p, ok) ==
    /\ inv[p].pc = "d1_copy_object"
    /\ LET source_key == inv[p].item.originalKey
           dest_key == ArchiveKey(inv[p])
       IN  IF source_key \notin bucket
             THEN /\ bucket' = bucket
                  /\ inv' = Finish(p, error_response(404, "NotFoundError"))
           ELSE IF ok /\ CopyPossible(source_key, dest_key)
             THEN /\ bucket' = bucket \cup {dest_key}
                  /\ inv' = [inv EXCEPT ![p].pc = "d1_update_item", ![p].copied = TRUE]
           ELSE /\ bucket' = bucket
                /\ inv' = Finish(p, error_response(500, "InternalError"))
    /\ UNCHANGED <<table, events, issued, clock, concurrency, settings, crashed, resize, http, mail>>

DeletePhotoV1UpdateItem(p, ok) ==
    /\ inv[p].pc = "d1_update_item"
    /\ LET me == inv[p]
       IN  IF ok
             THEN /\ table' = PutItem(me.photoId, ArchivedItem(me, Current(me.photoId)))
                  /\ clock' = clock + 1
                  /\ inv' = Finish(p, success_response(200, "archived"))
             ELSE /\ UNCHANGED <<table, clock>>
                  /\ inv' = Finish(p, error_response(500, "InternalError"))
    /\ UNCHANGED <<bucket, events, issued, concurrency, settings, crashed, resize, http, mail>>

-----------------------------------------------------------------------------
(* get_photo and list_photos *)

\* the statuses list_photos accepts
ListStatuses == {"pending", "published", "archived"}

\* photo.pop('uploadedBy', None) for a request without credential
strip_sensitive_fields(photo, is_auth) ==
    IF ~is_auth THEN [photo EXCEPT !.uploadedBy = NoUser] ELSE photo

\* photography-app: thumbnailUrl and fullResUrl name thumbnails/ and display/
enrich_photo_with_urls(photo) ==
    IF photo.originalKey # NoKey
      THEN [photo EXCEPT !.thumbnailUrl = thumbnail_key(photo.originalKey),
                         !.fullResUrl = display_key(photo.originalKey)]
      ELSE photo

\* terraform: both URLs name the original
enrich_photo_with_urls_v1(photo) ==
    IF photo.originalKey # NoKey
      THEN [photo EXCEPT !.thumbnailUrl = photo.originalKey,
                         !.fullResUrl = photo.originalKey]
      ELSE photo

\* the item as the store returns it
Photo(id) ==
    [photoId |-> id, status |-> table[id].status, originalKey |-> table[id].originalKey,
     uploadedBy |-> table[id].uploadedBy, thumbnailUrl |-> NoKey, fullResUrl |-> NoKey]

\* table.query(status-uploadDate-index, #status = :status)
Query(status) == {Photo(id) : id \in {i \in DOMAIN table : table[i].status = status}}

Answer(p, op, id, st, au, resp) ==
    [inv EXCEPT ![p] = [Begin(p, op, id, st, au) EXCEPT !.pc = "done", !.resp = resp]]

GetPhoto(p, id, au) ==
    /\ CanStart(p)
    /\ inv' = Answer(p, "get_photo", id, "", au,
          IF ~Exists(id)
            THEN error_response(404, "NotFoundError")
          ELSE IF ~au /\ table[id].status # "published"
            THEN error_response(403, "ForbiddenError")
          ELSE [success_response(200, "") EXCEPT !.photos =
                  {strip_sensitive_fields(enrich_photo_with_urls(Photo(id)), au)}])
    /\ UNCHANGED <<table, bucket, events, issued, clock, concurrency, settings, crashed, resize, http, mail>>

ListPhotos(p, st, au) ==
    /\ CanStart(p)
    /\ inv' = Answer(p, "list_photos", 0, st, au,
          IF st \notin ListStatuses
            THEN error_response(400, "ValidationError")
          ELSE IF ~au /\ st # "published"
            THEN error_response(403, "ForbiddenError")
          ELSE [success_response(200, "") EXCEPT !.photos =
                  {strip_sensitive_fields(enrich_photo_with_urls(ph), au) : ph \in Query(st)}])
    /\ UNCHANGED <<table, bucket, events, issued, clock, concurrency, settings, crashed, resize, http, mail>>

\* terraform/terraform/lambda/get_photo: no authentication check, nothing stripped
GetPhotoV1(p, id, au) ==
    /\ CanStart(p)
    /\ inv' = Answer(p, "get_photo_v1", id, "", au,
          IF ~Exists(id)
            THEN error_response(404, "NotFoundError")
          ELSE [success_response(200, "") EXCEPT !.photos =
                  {enrich_photo_with_urls_v1(Photo(id))}])
    /\ UNCHANGED <<table, bucket, events, issued, clock, concurrency, settings, crashed, resize, http, mail>>

\* terraform/terraform/lambda/list_photos: no authentication check, nothing stripped
ListPhotosV1(p, st, au) ==
    /\ CanStart(p)
    /\ inv' = Answer(p, "list_photos_v1", 0, st, au,
          IF st \notin ListStatuses
            THEN error_response(400, "ValidationError")
          ELSE [success_response(200, "") EXCEPT !.photos =
                  {enrich_photo_with_urls_v1(ph) : ph \in Query(st)}])
    /\ UNCHANGED <<table, bucket, events, issued, clock, concurrency, settings, crashed, resize, http, mail>>

-----------------------------------------------------------------------------
\* uploads and the thumbnail generator
NextUpload ==
    \/ \E id \in PhotoIds, ext \in ext_map : Upload(id, ext)
    \/ \E p \in Procs :
          \/ \E key \in events : GenerateThumbnailStart(p, key)
          \/ GenerateThumbnailPutThumbnail(p)
          \/ GenerateThumbnailPutDisplay(p)

\* create_photo and the terraform/ soft delete
NextCreate ==
    \/ \E p \in Procs, id \in PhotoIds : CreatePhotoStart(p, id) \/ DeletePhotoV1Start(p, id)
    \/ \E p \in Procs, ok \in BOOLEAN :
          \/ CreatePhotoPutItem(p, ok)
          \/ DeletePhotoV1CopyObject(p, ok)
          \/ DeletePhotoV1UpdateItem(p, ok)

\* the handlers that change an existing photo
NextWrite ==
    \/ \E p \in Procs, id \in PhotoIds :
          \/ DeletePhotoStart(p, id)
          \/ \E st \in RequestStatuses : UpdatePhotoStart(p, id, st)
    \/ \E p \in Procs, ids \in BulkIdLists, updates \in BulkUpdates, au \in BOOLEAN :
          BulkUpdateStart(p, ids, updates, au)
    \/ \E p \in Procs, ok \in BOOLEAN :
          \/ UpdatePhotoCopyObject(p, ok)
          \/ UpdatePhotoUpdateItem(p, ok)
          \/ BulkUpdateItem(p, ok)
          \/ DeletePhotoDeleteSource(p, ok)
          \/ DeletePhotoDeleteThumbnail(p, ok)
          \/ DeletePhotoDeleteDisplay(p, ok)
          \/ DeletePhotoDeleteItem(p, ok)
          \/ DeletePhotoCopyObject(p, ok)
          \/ DeletePhotoDeleteOriginal(p, ok)
          \/ DeletePhotoUpdateItem(p, ok)

\* the handlers that only read
NextRead ==
    \/ \E p \in Procs, id \in PhotoIds, au \in BOOLEAN :
          GetPhoto(p, id, au) \/ GetPhotoV1(p, id, au)
    \/ \E p \in Procs, st \in ListStatuses \cup {"bogus"}, au \in BOOLEAN :
          ListPhotos(p, st, au) \/ ListPhotosV1(p, st, au)

Next == NextUpload \/ NextCreate \/ NextWrite \/ NextRead

Spec == Init /\ [][Next]_vars

\* races between the handlers that change an existing photo
SpecConc == InitConc /\ [][NextWrite]_vars

-----------------------------------------------------------------------------
(* update_site_settings and get_site_settings *)

\* a body without heroPhotoId
NoPhotoId == 0

\* the settingId path parameters of the requests
SettingIds == {"hero", "about", "footer"}

\* settings_table.put_item(Item=...): replaces the whole item
PutSetting(sid, item) ==
    [i \in DOMAIN settings \cup {sid} |-> IF i = sid THEN item ELSE settings[i]]

\* validation of a hero or about body: title and subtitle, then the photo of
\* heroPhotoId must exist and be published; other settings are not validated
UpdateSiteSettingsStart(p, setting_id, hero_photo_id, titled) ==
    /\ CanStart(p)
    /\ clock < MaxClock
    /\ inv' = [inv EXCEPT ![p] =
          LET me == [Begin(p, "update_site_settings", hero_photo_id, "", TRUE)
                       EXCEPT !.settingId = setting_id]
              refuse == [me EXCEPT !.pc = "done",
                                   !.resp = error_response(400, "ValidationError")]
          IN  IF setting_id \in {"hero", "about"}
                THEN IF ~titled THEN refuse
                     ELSE IF hero_photo_id # NoPhotoId /\ ~Exists(hero_photo_id) THEN refuse
                     ELSE IF hero_photo_id # NoPhotoId
                             /\ table[hero_photo_id].status # "published" THEN refuse
                     ELSE [me EXCEPT !.pc = "us_put_item"]
                ELSE [me EXCEPT !.pc = "us_put_item"]]
    /\ UNCHANGED <<table, bucket, events, issued, clock, concurrency, settings, crashed, resize, http, mail>>

\* settings_table.put_item
UpdateSiteSettingsPutItem(p, ok) ==
    /\ inv[p].pc = "us_put_item"
    /\ LET me == inv[p]
       IN  IF ok
             THEN /\ settings' = PutSetting(me.settingId,
                                     [heroPhotoId |-> me.photoId, updatedAt |-> me.now])
                  /\ clock' = clock + 1
                  /\ inv' = Finish(p, success_response(200, "updated"))
             ELSE /\ UNCHANGED <<settings, clock>>
                  /\ inv' = Finish(p, error_response(500, "InternalError"))
    /\ UNCHANGED <<table, bucket, events, issued, concurrency, crashed, resize, http, mail>>

\* the setting as get_site_settings answers it: heroImageUrl is resolved from
\* the photo of heroPhotoId for hero and about, and cleared when it is gone
ResolvedSetting(sid) ==
    LET hero == IF sid \in DOMAIN settings THEN settings[sid].heroPhotoId ELSE NoPhotoId
    IN  [settingId |-> sid, heroPhotoId |-> hero,
         heroImageUrl |-> IF sid \in {"hero", "about"} /\ hero # NoPhotoId /\ Exists(hero)
                            THEN table[hero].originalKey
                            ELSE NoKey]

GetSiteSettings(p, setting_id) ==
    /\ CanStart(p)
    /\ inv' = [inv EXCEPT ![p] =
          [Begin(p, "get_site_settings", 0, "", FALSE) EXCEPT
              !.settingId = setting_id,
              !.pc = "done",
              !.resp = IF setting_id \notin DOMAIN settings /\ setting_id \notin {"hero", "about"}
                         THEN error_response(404, "NotFoundError")
                         ELSE [success_response(200, "") EXCEPT
                                  !.photos = {ResolvedSetting(setting_id)}]]]
    /\ UNCHANGED <<table, bucket, events, issued, clock, concurrency, settings, crashed, resize, http, mail>>

\* the photo of the site: pending, published or archived
InitSettings ==
    /\ \E ext \in ext_map :
          \/ InitEdited(ext, 1)
          \/ InitPublished(ext, 1)
          \/ InitArchived(ext, 1)
    /\ events = {}
    /\ issued = {1}
    /\ clock = 2
    /\ inv = [p \in Procs |-> Idle]
    /\ concurrency = 1
    /\ InitAside

\* settings requests and delete_photo requests
NextSettings ==
    \/ \E p \in Procs, sid \in SettingIds, hero \in PhotoIds \cup {NoPhotoId}, titled \in BOOLEAN :
          UpdateSiteSettingsStart(p, sid, hero, titled)
    \/ \E p \in Procs, sid \in SettingIds : GetSiteSettings(p, sid)
    \/ \E p \in Procs, id \in PhotoIds : DeletePhotoStart(p, id)
    \/ \E p \in Procs, ok \in BOOLEAN :
          \/ UpdateSiteSettingsPutItem(p, ok)
          \/ DeletePhotoDeleteSource(p, ok)
          \/ DeletePhotoDeleteThumbnail(p, ok)
          \/ DeletePhotoDeleteDisplay(p, ok)
          \/ DeletePhotoDeleteItem(p, ok)
          \/ DeletePhotoCopyObject(p, ok)
          \/ DeletePhotoDeleteOriginal(p, ok)
          \/ DeletePhotoUpdateItem(p, ok)

SpecSettings == InitSettings /\ [][NextSettings]_vars

-----------------------------------------------------------------------------
(* An invocation that dies in mid-run: the platform frees its slot, nothing  *)
(* it did is undone and nothing it had left to do is done.  The only fault   *)
(* of these runs is the crash: every store call answers.                     *)

Crash(p) ==
    /\ ~Free(p)
    /\ crashed' = inv[p]
    /\ inv' = [inv EXCEPT ![p] = Idle]
    /\ UNCHANGED <<table, bucket, events, issued, clock, concurrency, settings, resize, http, mail>>

\* a photo that is pending or published
InitCrash ==
    /\ \E ext \in ext_map : InitEdited(ext, 1) \/ InitPublished(ext, 1)
    /\ events = {}
    /\ issued = {1}
    /\ clock = 2
    /\ inv = [p \in Procs |-> Idle]
    /\ concurrency = 1
    /\ InitAside

NextCrash ==
    \/ \E p \in Procs : Crash(p)
    \/ \E p \in Procs, id \in PhotoIds :
          \/ DeletePhotoStart(p, id)
          \/ \E st \in RequestStatuses : UpdatePhotoStart(p, id, st)
    \/ \E p \in Procs :
          \/ UpdatePhotoCopyObject(p, TRUE)
          \/ UpdatePhotoUpdateItem(p, TRUE)
          \/ DeletePhotoDeleteSource(p, TRUE)
          \/ DeletePhotoDeleteThumbnail(p, TRUE)
          \/ DeletePhotoDeleteDisplay(p, TRUE)
          \/ DeletePhotoDeleteItem(p, TRUE)
          \/ DeletePhotoCopyObject(p, TRUE)
          \/ DeletePhotoDeleteOriginal(p, TRUE)
          \/ DeletePhotoUpdateItem(p, TRUE)

SpecCrash == InitCrash /\ [][NextCrash]_vars

-----------------------------------------------------------------------------
(* resize_image: the dimensions it computes for a source image and a target *)
(* width.  On the sizes of the model max_width * (height / width) is exact  *)
(* in double arithmetic, so int() of it is the integer quotient.            *)

\* int(max_width * aspect_ratio), aspect_ratio = original_height / original_width
ScaledHeight(max_width, original_height, original_width) ==
    (max_width * original_height) \div original_width

\* a resize that scales every image to max_width
resize_image_stretch(call) ==
    LET new_height == ScaledHeight(call.max_width, call.original_height, call.original_width)
    IN  [call EXCEPT !.called = TRUE,
                     !.raised = new_height < 1,
                     !.new_width = IF new_height < 1 THEN 0 ELSE call.max_width,
                     !.new_height = IF new_height < 1 THEN 0 ELSE new_height]

\* the size of the image resize_image returns; img.resize refuses a size with
\* a side below 1 and the call raises
resize_image(call) ==
    LET fits == call.original_width <= call.max_width
        new_width == IF fits THEN call.original_width ELSE call.max_width
        new_height == IF fits THEN call.original_height
                      ELSE ScaledHeight(call.max_width, call.original_height,
                                        call.original_width)
    IN  [call EXCEPT !.called = TRUE,
                     !.raised = new_height < 1,
                     !.new_width = IF new_height < 1 THEN 0 ELSE new_width,
                     !.new_height = IF new_height < 1 THEN 0 ELSE new_height]

\* one call of resize_image
ResizeImage ==
    /\ ~resize.called
    /\ resize' = resize_image(resize)
    /\ UNCHANGED <<table, bucket, events, issued, clock, concurrency, settings, crashed, http, mail, inv>>

\* any source size and any target width
InitResize ==
    /\ InitStores
    /\ concurrency = 1
    /\ settings = <<>>
    /\ crashed = Idle
    /\ http = NoHttp
    /\ mail = NoMail
    /\ \E w \in 1..MaxDim, h \in 1..MaxDim, target \in 1..MaxDim :
          resize = [NoResize EXCEPT !.original_width = w, !.original_height = h,
                                    !.max_width = target]

SpecResize == InitResize /\ [][ResizeImage]_vars

-----------------------------------------------------------------------------
(* The thumbnail generator on every kind of key: S3 notifies it of objects   *)
(* under any prefix, notifications may be repeated, and objects that are no  *)
(* image get into uploads/.                                                  *)

\* an object that is no image is put under uploads/
PutObject(id) ==
    /\ Key("uploads", id, "txt") \notin bucket
    /\ bucket' = bucket \cup {Key("uploads", id, "txt")}
    /\ events' = events \cup {Key("uploads", id, "txt")}
    /\ UNCHANGED <<table, issued, clock, concurrency, settings, crashed, resize, http, mail, inv>>

\* S3 sends the ObjectCreated notification of an object
Notify(key) ==
    /\ key \in bucket
    /\ key \notin events
    /\ events' = events \cup {key}
    /\ UNCHANGED <<table, bucket, issued, clock, concurrency, settings, crashed, resize, http, mail, inv>>

NextThumbnails ==
    \/ \E id \in PhotoIds, ext \in ext_map : Upload(id, ext)
    \/ \E id \in PhotoIds : PutObject(id)
    \/ \E key \in bucket : Notify(key)
    \/ \E p \in Procs :
          \/ \E key \in events : GenerateThumbnailStart(p, key)
          \/ GenerateThumbnailPutThumbnail(p)
          \/ GenerateThumbnailPutDisplay(p)

\* an empty bucket, one invocation at a time
InitThumbnails ==
    /\ InitStores
    /\ concurrency = 1
    /\ InitAside

SpecThumbnails == InitThumbnails /\ [][NextThumbnails]_vars

-----------------------------------------------------------------------------
(* Requests that carry an identifier that is no UUID, to every handler that *)
(* takes one                                                                *)

NextIds ==
    \/ \E p \in Procs, id \in PhotoIds \cup MalformedIds : CreatePhotoStart(p, id)
    \/ \E p \in Procs, id \in MalformedIds :
          \/ \E st \in RequestStatuses : UpdatePhotoStart(p, id, st)
          \/ DeletePhotoStart(p, id)
          \/ \E updates \in BulkUpdates : BulkUpdateStart(p, <<id>>, updates, TRUE)
          \/ \E au \in BOOLEAN : GetPhoto(p, id, au)
          \/ UpdateSiteSettingsStart(p, "hero", id, TRUE)
    \/ \E p \in Procs, ok \in BOOLEAN :
          \/ CreatePhotoPutItem(p, ok)
          \/ UpdatePhotoUpdateItem(p, ok)
          \/ BulkUpdateItem(p, ok)
          \/ UpdateSiteSettingsPutItem(p, ok)

SpecIds == Init /\ [][NextIds]_vars

-----------------------------------------------------------------------------
(* Bulk updates over several photos, with the request bodies the validation *)
(* is for                                                                   *)

\* the photos of the bulk requests
BulkIds == {1, 2}

\* no list, lists of distinct identifiers, and a list of MaxBatch + 1
BulkRequestLists ==
    {<<>>, <<1>>, <<2>>, <<1, 2>>, <<2, 1>>, [i \in 1..(MaxBatch + 1) |-> i]}

\* two photos, created one after the other, both pending
InitBulk ==
    /\ \E ext \in ext_map :
          /\ table = [id \in BulkIds |-> NewItem(Key("uploads", id, ext), AdminUser, id)]
          /\ bucket = UNION {{Key("uploads", id, ext), Key("thumbnails", id, ext),
                              Key("display", id, ext)} : id \in BulkIds}
    /\ events = {}
    /\ issued = BulkIds
    /\ clock = MaxClock - 2
    /\ inv = [p \in Procs |-> Idle]
    /\ concurrency = 1
    /\ InitAside

NextBulk ==
    \/ \E p \in Procs, ids \in BulkRequestLists, updates \in BulkUpdates \cup {<<>>},
            au \in BOOLEAN :
          BulkUpdateStart(p, ids, updates, au)
    \/ \E p \in Procs, ok \in BOOLEAN : BulkUpdateItem(p, ok)

SpecBulk == InitBulk /\ [][NextBulk]_vars

-----------------------------------------------------------------------------
(* CORS: the Access-Control-Allow-Origin header of each handler's responses *)

DefaultOrigin == "https://www.cindyashleyphotography.com"

allowed_origins ==
    {"https://www.cindyashleyphotography.com", "https://cindyashleyphotography.com",
     "http://localhost:5173", "http://localhost:3000"}

\* the Origin headers of requests: allowed ones, foreign ones, and "" for a
\* request without the header
Origins ==
    allowed_origins \cup {"https://evil.example", "https://www.cindyashleyphotography.com.evil.example", "*", ""}

\* origin if origin in allowed_origins, the main domain otherwise
get_allowed_origin(origin) ==
    IF origin \in allowed_origins THEN origin ELSE DefaultOrigin

\* the handlers whose success_response and error_response take allowed_origin
ReflectingHandlers ==
    {"photography-app/get_photo", "photography-app/list_photos",
     "photography-app/bulk_update_photos", "photography-app/get_site_settings",
     "photography-app/update_site_settings", "terraform/contact_form"}

\* the handlers whose success_response and error_response write '*'
WildcardHandlers ==
    {"photography-app/create_photo", "photography-app/delete_photo",
     "terraform/generate_upload_url", "terraform/get_photo", "terraform/list_photos",
     "terraform/update_photo", "terraform/delete_photo"}

Handlers == ReflectingHandlers \cup WildcardHandlers

\* headers['Access-Control-Allow-Origin'] of success_response and error_response
AccessControlAllowOrigin(handler, origin) ==
    IF handler \in WildcardHandlers THEN "*" ELSE get_allowed_origin(origin)

\* a handler answers its request, with a success or with an error
Respond ==
    /\ ~http.answered
    /\ http' = [http EXCEPT !.answered = TRUE,
                            !.allowOrigin = AccessControlAllowOrigin(http.handler, http.origin)]
    /\ UNCHANGED <<table, bucket, events, issued, clock, concurrency, settings, crashed,
                   resize, mail, inv>>

\* any handler, any Origin header
InitCors ==
    /\ InitStores
    /\ concurrency = 1
    /\ settings = <<>>
    /\ crashed = Idle
    /\ resize = NoResize
    /\ mail = NoMail
    /\ \E handler \in Handlers, origin \in Origins :
          http = [NoHttp EXCEPT !.handler = handler, !.origin = origin]

SpecCors == InitCors /\ [][Respond]_vars

-----------------------------------------------------------------------------
(* contact_form (terraform/terraform/lambda/contact_form).  A string is the *)
(* sequence of its characters.                                              *)

\* str.strip()
RECURSIVE lstrip(_)
lstrip(str) ==
    IF str # <<>> /\ Head(str) = " " THEN lstrip(Tail(str)) ELSE str

RECURSIVE rstrip(_)
rstrip(str) ==
    IF str # <<>> /\ str[Len(str)] = " " THEN rstrip(SubSeq(str, 1, Len(str) - 1)) ELSE str

strip(str) == rstrip(lstrip(str))

\* ch in str
Contains(str, ch) == \E i \in 1..Len(str) : str[i] = ch

\* str.split(','): the pieces between commas; ''.split(',') is ['']
RECURSIVE split(_)
split(str) ==
    IF ~Contains(str, ",")
      THEN <<str>>
      ELSE LET i == CHOOSE k \in 1..Len(str) :
                        str[k] = "," /\ \A j \in 1..(k - 1) : str[j] # ","
           IN  <<SubSeq(str, 1, i - 1)>> \o split(SubSeq(str, i + 1, Len(str)))

\* os.environ.get(name) of a variable that is not set
Unset == <<"None">>

\* os.environ.get('RECIPIENT_EMAILS', '')
RecipientEmailsOrEmpty(m) == IF m.RECIPIENT_EMAILS = Unset THEN <<>> ELSE m.RECIPIENT_EMAILS

\* not all([name, sender_email, subject, message])
MissingRequiredFields(body) ==
    \/ strip(body.name) = <<>>
    \/ strip(body.email) = <<>>
    \/ strip(body.subject) = <<>>
    \/ strip(body.message) = <<>>

\* '@' not in sender_email or '.' not in sender_email
InvalidEmailAddress(body) ==
    ~Contains(strip(body.email), "@") \/ ~Contains(strip(body.email), ".")

\* not recipient_emails or not sender
MissingEmailConfiguration(m) ==
    \/ split(RecipientEmailsOrEmpty(m)) = <<>>
    \/ m.SENDER_EMAIL = Unset
    \/ m.SENDER_EMAIL = <<>>

ContactRespond(m, code, etype) ==
    [m EXCEPT !.pc = "done", !.statusCode = code, !.errorType = etype]

\* the handler up to the call of ses.send_email
ContactFormStart(body) ==
    /\ mail.pc = "idle"
    /\ mail' =
          LET m == [mail EXCEPT !.body = body]
          IN  IF ~body.json
                THEN ContactRespond(m, 400, "ValidationError")
              ELSE IF MissingRequiredFields(body)
                THEN ContactRespond(m, 400, "ValidationError")
              ELSE IF InvalidEmailAddress(body)
                THEN ContactRespond(m, 400, "ValidationError")
              ELSE IF MissingEmailConfiguration(m)
                THEN ContactRespond(m, 500, "ConfigurationError")
              ELSE [m EXCEPT !.pc = "send_email",
                             !.ToAddresses = split(RecipientEmailsOrEmpty(m))]
    /\ UNCHANGED <<table, bucket, events, issued, clock, concurrency, settings, crashed,
                   resize, http, inv>>

\* what ses.send_email can do: the service accepts a message only when every
\* address is one, and may refuse any message
SesOutcomes(m) ==
    {"MessageRejected", "ClientError"}
    \cup (IF \A i \in 1..Len(m.ToAddresses) : Contains(m.ToAddresses[i], "@")
            THEN {"MessageId"} ELSE {})

\* ses.send_email and the response
ContactFormSendEmail(outcome) ==
    /\ mail.pc = "send_email"
    /\ outcome \in SesOutcomes(mail)
    /\ mail' =
          LET m == [mail EXCEPT !.calls = mail.calls + 1]
          IN  IF outcome = "MessageId"
                THEN ContactRespond([m EXCEPT !.sent = mail.sent + 1], 200, "")
              ELSE IF outcome = "MessageRejected"
                THEN ContactRespond(m, 500, "EmailError")
              ELSE ContactRespond(m, 500, "InternalError")
    /\ UNCHANGED <<table, bucket, events, issued, clock, concurrency, settings, crashed,
                   resize, http, inv>>

\* the request bodies: one that is not JSON, and objects with a name and an
\* email address of each kind
ContactBodies ==
    {[json |-> FALSE, name |-> <<>>, email |-> <<>>, subject |-> <<>>, message |-> <<>>]}
    \cup {[json |-> TRUE, name |-> n, email |-> e, subject |-> <<"Q">>, message |-> <<"M">>] :
            n \in {<<>>, <<" ">>, <<"J">>},
            e \in {<<>>, <<"j">>, <<"j", "@", "x">>, <<" ", "j", "@", "x", ".", "c">>}}

\* the environments: each address variable set, empty or not set
ContactEnvironments ==
    [RECIPIENT_EMAILS : {Unset, <<>>, <<"o", "@", "s", ".", "c">>,
                         <<"o", "@", "s", ".", "c", ",", "p", "@", "s", ".", "c">>},
     SENDER_EMAIL : {Unset, <<>>, <<"n", "@", "s", ".", "c">>}]

InitContact ==
    /\ InitStores
    /\ concurrency = 1
    /\ settings = <<>>
    /\ crashed = Idle
    /\ resize = NoResize
    /\ http = NoHttp
    /\ \E env \in ContactEnvironments :
          mail = [NoMail EXCEPT !.RECIPIENT_EMAILS = env.RECIPIENT_EMAILS,
                                !.SENDER_EMAIL = env.SENDER_EMAIL]

NextContact ==
    \/ \E body \in ContactBodies : ContactFormStart(body)
    \/ \E outcome \in {"MessageId", "MessageRejected", "ClientError"} :
          ContactFormSendEmail(outcome)

SpecContact == InitContact /\ [][NextContact]_vars

-----------------------------------------------------------------------------
(* Two requests on the same photo at the same time: each slot takes one     *)
(* request, the second while the first is in flight, and the stores answer  *)
(* every call.                                                              *)

InitRace ==
    /\ \E ext \in ext_map :
          \/ InitEdited(ext, 1)
          \/ InitPublished(ext, 1)
          \/ InitArchived(ext, 1)
    /\ events = {}
    /\ issued = {1}
    /\ clock = 2
    /\ inv = [p \in Procs |-> Idle]
    /\ concurrency = 2
    /\ InitAside

NextRace ==
    \/ \E p \in Procs, id \in PhotoIds :
          /\ inv[p].pc = "idle"
          /\ \/ DeletePhotoStart(p, id)
             \/ \E st \in RequestStatuses : UpdatePhotoStart(p, id, st)
    \/ \E p \in Procs :
          \/ UpdatePhotoCopyObject(p, TRUE)
          \/ UpdatePhotoUpdateItem(p, TRUE)
          \/ DeletePhotoDeleteSource(p, TRUE)
          \/ DeletePhotoDeleteThumbnail(p, TRUE)
          \/ DeletePhotoDeleteDisplay(p, TRUE)
          \/ DeletePhotoDeleteItem(p, TRUE)
          \/ DeletePhotoCopyObject(p, TRUE)
          \/ DeletePhotoDeleteOriginal(p, TRUE)
          \/ DeletePhotoUpdateItem(p, TRUE)

SpecRace == InitRace /\ [][NextRace]_vars

(* A whole request on its own, as a function of the stores: the record of   *)
(* the photo (exists, status, originalKey) and the bucket it starts from,   *)
(* and the record and bucket it leaves.                                     *)

Stores(exists, status, originalKey, keys) ==
    [exists |-> exists, status |-> status, originalKey |-> originalKey, bucket |-> keys]

\* update_photo from get_item to update_item, every store call answered
UpdatePhotoRun(s, id, st) ==
    LET new == IF st = "" THEN s.status ELSE st
        dest_key == Key(IF new = "published" THEN "originals" ELSE "archive", id,
                        Ext(s.originalKey))
    IN  IF ~s.exists \/ s.status = NoStatus
          THEN s
        ELSE IF new # s.status /\ new \in {"published", "archived"}
          THEN IF s.originalKey = NoKey \/ s.originalKey \notin s.bucket
                    \/ s.originalKey = dest_key
                 THEN s
                 ELSE Stores(TRUE, new, dest_key, s.bucket \cup {dest_key})
        ELSE s

\* delete_photo from get_item to delete_item or update_item, every store
\* call answered
DeletePhotoRun(s, id) ==
    LET dest_key == Key("archive", id, Ext(s.originalKey))
    IN  IF ~s.exists \/ s.originalKey = NoKey
          THEN s
        ELSE IF s.status = "archived"
          THEN Stores(FALSE, NoStatus, NoKey,
                      s.bucket \ {s.originalKey, thumbnail_key(s.originalKey),
                                  display_key(s.originalKey)})
        ELSE IF s.originalKey \notin s.bucket \/ s.originalKey = dest_key
          THEN s
        ELSE Stores(TRUE, "archived", dest_key,
                    (s.bucket \cup {dest_key}) \ {s.originalKey})

\* the request of one invocation, run on its own; a request that was
\* answered with an error counts as one that did not run
RequestRun(s, me) ==
    IF me.resp.statusCode # 200
      THEN s
    ELSE IF me.op = "update_photo"
      THEN UpdatePhotoRun(s, me.photoId, me.reqStatus)
      ELSE DeletePhotoRun(s, me.photoId)

-----------------------------------------------------------------------------
(* Properties *)

Done(p, op) == inv[p].pc = "done" /\ inv[p].op = op

Succeeded(p) == inv[p].resp.statusCode \in {200, 201}

Failed(p) == inv[p].resp.statusCode >= 400

\* the invocation read an item
Found(p) == inv[p].item # NoItem

\* the invocation came to its copy_object call and the call did not copy
CopyStepFailed(p) ==
    /\ inv[p].pc = "done"
    /\ Found(p)
    /\ inv[p].item.originalKey # NoKey
    /\ ~inv[p].copied
    /\ \/ /\ inv[p].op = "update_photo"
          /\ inv[p].item.status # NoStatus
          /\ new_status(inv[p]) # inv[p].item.status
          /\ new_status(inv[p]) \in {"published", "archived"}
       \/ /\ inv[p].op = "delete_photo"
          /\ inv[p].item.status # "archived"
       \/ inv[p].op = "delete_photo_v1"

\* C1: when the copy step of a relocating request (publish or archive through
\* update_photo, archive through delete_photo) fails, the request answers with
\* an error and the photo's item is exactly the item the request read.
C1_CopyFailureCommitsNothing ==
    \A p \in Procs :
        CopyStepFailed(p) =>
            /\ Failed(p)
            /\ Exists(inv[p].photoId)
            /\ table[inv[p].photoId] = inv[p].item

\* an update_photo publish and a delete_photo archive whose copy failed
C1_Witness ==
    \E p \in Procs :
        /\ CopyStepFailed(p)
        /\ inv[p].item.originalKey \in bucket
        /\ \/ inv[p].op = "update_photo" /\ inv[p].reqStatus = "published"
           \/ inv[p].op = "delete_photo"

\* the status steps of the lifecycle
LifecycleSteps ==
    {<<"pending", "published">>, <<"pending", "archived">>, <<"published", "archived">>}

\* a step of update_photo, bulk_update_photos or delete_photo
LifecycleRequestStep ==
    \E p \in Procs :
        /\ inv'[p] # inv[p]
        /\ inv'[p].op \in {"update_photo", "bulk_update_photos", "delete_photo"}

\* C2: under update_photo, bulk_update_photos and delete_photo requests the
\* stored status of a photo changes only pending -> published, pending ->
\* archived, published -> archived, and the item is removed only when archived.
C2_StatusOnlyForward ==
    [][LifecycleRequestStep =>
         \A id \in DOMAIN table :
            table[id].status \in {"pending", "published", "archived"} =>
               IF id \in DOMAIN table'
                 THEN \/ table'[id].status = table[id].status
                      \/ <<table[id].status, table'[id].status>> \in LifecycleSteps
                 ELSE table[id].status = "archived"]_vars

\* C3: an item is removed from the table only by a step of a delete request,
\* and its stored status is archived at the moment it is removed, whatever
\* other requests on the photo run at the same time.
C3_RemovedOnlyWhenArchived ==
    [][\A id \in DOMAIN table :
          id \notin DOMAIN table' =>
             /\ table[id].status = "archived"
             /\ \E p \in Procs : inv[p].op = "delete_photo" /\ inv'[p] # inv[p]]_vars

\* the prefix of the key of a photo in each status
PrefixOf(status) ==
    CASE status = "pending" -> "uploads"
      [] status = "published" -> "originals"
      [] status = "archived" -> "archive"
      [] OTHER -> "none"

\* C4: in every reachable state the stored key of every item has the prefix
\* of the item's status: uploads/ pending, originals/ published, archive/
\* archived.
C4_KeyPrefixMatchesStatus ==
    \A id \in DOMAIN table :
        table[id].originalKey # NoKey =>
            table[id].originalKey[1] = PrefixOf(table[id].status)

\* C5: after a successful pending -> published update_photo the binary is at
\* originals/<id>.<ext of the previous key>, the item's key is that key, and
\* the object at the previous key is gone.
C5_PublishRelocates ==
    \A p \in Procs :
        ( /\ Done(p, "update_photo") /\ Succeeded(p)
          /\ inv[p].item.status = "pending" /\ inv[p].reqStatus = "published" ) =>
            LET dest == Key("originals", inv[p].photoId, Ext(inv[p].item.originalKey))
            IN  /\ dest \in bucket
                /\ Exists(inv[p].photoId)
                /\ table[inv[p].photoId].originalKey = dest
                /\ inv[p].item.originalKey \notin bucket

\* the derived objects of a photo in a set of keys
Derived(id, keys) == {k \in keys : k[1] \in {"thumbnails", "display"} /\ k[2] = id}

\* a delete_photo request on an archived photo that answered with success
PermanentDelete(p) ==
    Done(p, "delete_photo") /\ Succeeded(p) /\ inv[p].item.status = "archived"

\* C6 as stated: a successful delete of an archived photo removes the item,
\* the archived binary and every thumbnails/ and display/ object of the photo.
C6_DeleteRemovesAllKeys ==
    \A p \in Procs :
        PermanentDelete(p) =>
            /\ ~Exists(inv[p].photoId)
            /\ inv[p].item.originalKey \notin bucket
            /\ Derived(inv[p].photoId, bucket) = {}

\* C6 as amended: a successful delete of an archived photo removes the item
\* and the archived binary, and of the thumbnails/ and display/ objects of
\* the photo only one whose own removal call failed is left.
C6_DeleteRemovesKeysBestEffort ==
    \A p \in Procs :
        PermanentDelete(p) =>
            /\ ~Exists(inv[p].photoId)
            /\ inv[p].item.originalKey \notin bucket
            /\ Derived(inv[p].photoId, bucket) \subseteq
                  {k \in {thumbnail_key(inv[p].item.originalKey)} : ~inv[p].thumbDeleted}
                  \cup {k \in {display_key(inv[p].item.originalKey)} : ~inv[p].displayDeleted}

\* a permanent delete of a photo that had its thumbnail and display objects
C6_Witness ==
    \E p \in Procs :
        /\ PermanentDelete(p)
        /\ Cardinality(Derived(inv[p].photoId, inv[p].before)) = 2
        /\ Derived(inv[p].photoId, bucket) = {}

\* a request that archived a pending or published photo
Archiving(p) ==
    /\ Succeeded(p)
    /\ inv[p].item.status \in {"pending", "published"}
    /\ \/ Done(p, "update_photo") /\ inv[p].reqStatus = "archived"
       \/ Done(p, "delete_photo")

\* C7: archiving a pending or published photo, by update_photo or by
\* delete_photo, leaves the thumbnails/ and display/ objects as they were,
\* moves the binary to archive/<id>.<ext> and keeps the item.
C7_ArchiveMovesBinaryKeepsDerived ==
    \A p \in Procs :
        Archiving(p) =>
            LET dest == Key("archive", inv[p].photoId, Ext(inv[p].item.originalKey))
            IN  /\ Derived(inv[p].photoId, bucket) = Derived(inv[p].photoId, inv[p].before)
                /\ Exists(inv[p].photoId)
                /\ table[inv[p].photoId].status = "archived"
                /\ table[inv[p].photoId].originalKey = dest
                /\ dest \in bucket
                /\ inv[p].item.originalKey \notin bucket

\* a write of a request that asks for status published
PublishWrite ==
    \E p \in Procs :
        /\ inv[p].op \in {"update_photo", "bulk_update_photos"}
        /\ inv[p].reqStatus = "published"
        /\ inv'[p] # inv[p]
        /\ table' # table

\* C8: once publishedAt is set, a later publish request, through update_photo
\* or bulk_update_photos, leaves it unchanged.
C8_PublishedAtSetOnce ==
    [][PublishWrite =>
         \A id \in DOMAIN table \cap DOMAIN table' :
            table[id].publishedAt # NoTime =>
               table'[id].publishedAt = table[id].publishedAt]_vars

\* an answered get_photo or list_photos request, of either generation
Answered(p) ==
    /\ inv[p].pc = "done"
    /\ inv[p].op \in {"get_photo", "list_photos", "get_photo_v1", "list_photos_v1"}

\* C9: a get_photo or list_photos request without credential is never
\* answered with a photo that is not published.
C9_PublicSeesOnlyPublished ==
    \A p \in Procs :
        (Answered(p) /\ ~inv[p].auth) =>
            \A photo \in inv[p].resp.photos : photo.status = "published"

\* C10: no photo in the answer to a request without credential has
\* uploadedBy, and a request with credential gets it as stored.
C10_UploadedByStripped ==
    \A p \in Procs :
        Answered(p) =>
            \A photo \in inv[p].resp.photos :
                IF inv[p].auth
                  THEN Exists(photo.photoId)
                       /\ photo.uploadedBy = table[photo.photoId].uploadedBy
                  ELSE photo.uploadedBy = NoUser

\* a finished or running bulk request the validation refuses: no identifiers,
\* no updates, or more than MaxBatch identifiers
Refused(me) ==
    /\ me.op = "bulk_update_photos"
    /\ me.auth
    /\ Len(me.ids) = 0 \/ DOMAIN me.updates = {} \/ Len(me.ids) > MaxBatch

\* C11: a bulk update with an empty photoIds list, an empty updates object or
\* more than 100 identifiers is answered 400 ValidationError at once, and no
\* step of it writes the table.
C11_OversizedBatchRejected ==
    [][\A p \in Procs :
          (inv'[p] # inv[p] /\ Refused(inv'[p])) =>
             /\ inv'[p].pc = "done"
             /\ inv'[p].resp.statusCode = 400
             /\ inv'[p].resp.errorType = "ValidationError"
             /\ table' = table]_vars

\* a request with 101 identifiers was refused
C11_Witness ==
    \E p \in Procs :
        /\ Done(p, "bulk_update_photos")
        /\ inv[p].auth
        /\ Len(inv[p].ids) = MaxBatch + 1
        /\ DOMAIN inv[p].updates # {}
        /\ inv[p].resp.statusCode = 400

\* the identifiers of a list
Range(seq) == {seq[i] : i \in 1..Len(seq)}

\* C12: each turn of the loop of a bulk update either applies the update to
\* the identifier of the turn and appends it to succeeded, or leaves the table
\* and appends it to failed; it goes on to the next identifier either way, and
\* after the last the request answers 200 with every identifier in exactly one
\* of the two lists.
C12_PartialFailureReported ==
    [][\A p \in Procs :
          (inv[p].pc = "bu_update_item" /\ inv'[p] # inv[p]) =>
             LET me == inv[p]
                 id == me.ids[me.idx]
                 applied == table' = PutItem(id, BulkUpdatedItem(me, Current(id)))
                 after == inv'[p].resp
             IN  /\ applied \/ table' = table
                 /\ after.succeeded =
                       IF applied THEN Append(me.resp.succeeded, id) ELSE me.resp.succeeded
                 /\ after.failed =
                       IF applied THEN me.resp.failed ELSE Append(me.resp.failed, id)
                 /\ IF me.idx < Len(me.ids)
                      THEN inv'[p].pc = "bu_update_item" /\ inv'[p].idx = me.idx + 1
                      ELSE /\ inv'[p].pc = "done"
                           /\ after.statusCode = 200
                           /\ Range(after.succeeded) \cup Range(after.failed) = Range(me.ids)
                           /\ Range(after.succeeded) \cap Range(after.failed) = {}]_vars

\* the first update failed and the second was applied all the same
C12_Witness ==
    \E p \in Procs :
        /\ Done(p, "bulk_update_photos")
        /\ inv[p].resp.failed = <<1>>
        /\ inv[p].resp.succeeded = <<2>>
        /\ table[2].updatedAt = inv[p].now
        /\ table[1].updatedAt # inv[p].now

\* C13: in every reachable state the photo a saved hero or about setting
\* names by heroPhotoId either has status published or has no item.
C13_HeroReferencesPublished ==
    \A sid \in DOMAIN settings \cap {"hero", "about"} :
        LET hero == settings[sid].heroPhotoId
        IN  hero # NoPhotoId => (~Exists(hero) \/ table[hero].status = "published")

\* an update_photo invocation that asks for no status change
PlainEdit(me) ==
    /\ me.op = "update_photo"
    /\ me.reqStatus = "" \/ me.reqStatus = me.item.status

\* C14: no step of an update_photo request without status, or with the status
\* the item has, changes the object store; the only write of the request puts
\* back the item it read with updatedAt changed and nothing else, and a
\* request that succeeds has made that write.
C14_PlainEditKeepsStatusAndKey ==
    [][\A p \in Procs :
          (inv'[p] # inv[p] /\ PlainEdit(inv'[p])) =>
             LET me == inv'[p]
                 written == PutItem(me.photoId, [me.item EXCEPT !.updatedAt = me.now])
             IN  /\ bucket' = bucket
                 /\ table' = table \/ table' = written
                 /\ (me.pc = "done" /\ me.resp.statusCode = 200) => table' = written]_vars

\* a request naming status published on a published photo
C14_Witness ==
    \E p \in Procs :
        /\ PlainEdit(inv[p])
        /\ Done(p, "update_photo")
        /\ Succeeded(p)
        /\ inv[p].reqStatus = "published"
        /\ inv[p].item.publishedAt # NoTime
        /\ table[inv[p].photoId].updatedAt # inv[p].item.updatedAt

\* C15: an item appears in the table for an identifier that had none only by
\* the put_item of a create_photo request, whose upload object it names.
C15_RecordOnlyByCreate ==
    [][\A id \in DOMAIN table' \ DOMAIN table :
          \E p \in Procs :
             /\ inv[p].op = "create_photo"
             /\ inv[p].pc = "cp_put_item"
             /\ inv'[p].pc = "done"
             /\ inv[p].photoId = id
             /\ table'[id].originalKey[1] = "uploads"]_vars

\* the lost invocation was relocating a binary: it had copied and had not yet
\* written the table
CrashedInTransition ==
    /\ crashed.op \in {"update_photo", "delete_photo"}
    /\ crashed.copied
    /\ crashed.pc \in {"up_update_item", "dp_delete_original", "dp_update_item"}

\* the request of the lost invocation, sent again before any other write
Rerun(p) ==
    /\ CrashedInTransition
    /\ Done(p, crashed.op)
    /\ inv[p].photoId = crashed.photoId
    /\ inv[p].reqStatus = crashed.reqStatus
    /\ inv[p].now = crashed.now

\* the key an uninterrupted run moves the binary to
TransitionKey(me) == IF me.op = "update_photo" THEN UpdateDestKey(me) ELSE ArchiveKey(me)

\* the bucket an uninterrupted run leaves
UninterruptedBucket(me) ==
    IF me.op = "update_photo"
      THEN me.before \cup {TransitionKey(me)}
      ELSE (me.before \cup {TransitionKey(me)}) \ {me.item.originalKey}

\* C16: after a crash between the object-store steps and the table write of
\* a status transition, the same request sent again reads the item the lost
\* run read, succeeds, and leaves the item and the bucket an uninterrupted
\* run leaves.
C16_CrashThenRerunConverges ==
    \A p \in Procs :
        Rerun(p) =>
            /\ inv[p].item = crashed.item
            /\ Succeeded(p)
            /\ Exists(inv[p].photoId)
            /\ table[inv[p].photoId].originalKey = TransitionKey(crashed)
            /\ bucket = UninterruptedBucket(crashed)

\* C17: resize_image returns an image of the source's dimensions when the
\* source is no wider than the target, and never an image wider than the
\* target.
C17_NeverUpscales ==
    resize.called =>
        /\ resize.original_width <= resize.max_width =>
              /\ ~resize.raised
              /\ resize.new_width = resize.original_width
              /\ resize.new_height = resize.original_height
        /\ ~resize.raised => resize.new_width <= resize.max_width

\* a source narrower than the target came back with its own dimensions
C17_Witness ==
    /\ resize.called
    /\ resize.original_width < resize.max_width
    /\ resize.new_width = resize.original_width
    /\ resize.new_height = resize.original_height

\* round(n / d) as Python rounds: to the nearest integer, a half to the even one
Round(n, d) ==
    LET q == n \div d
        r == n % d
    IN  IF 2 * r < d THEN q
        ELSE IF 2 * r > d THEN q + 1
        ELSE IF q % 2 = 0 THEN q ELSE q + 1

\* C18: for a source wider than the target, resize_image returns an image of
\* the target's width whose height is within one pixel of
\* round(target_width * original_height / original_width).
C18_ScaledHeightWithinOnePixel ==
    (resize.called /\ resize.original_width > resize.max_width) =>
        LET rounded == Round(resize.max_width * resize.original_height, resize.original_width)
        IN  /\ ~resize.raised
            /\ resize.new_width = resize.max_width
            /\ resize.new_height - rounded \in {-1, 0, 1}

\* C19: a generate_thumbnail invocation for a key that is no image file, or
\* that lies under thumbnails/ or display/, ends in its first step with a 200
\* answer and the bucket unchanged.
C19_GeneratorSkipsDerivedKeys ==
    [][\A p \in Procs :
          ( /\ inv'[p] # inv[p]
            /\ inv'[p].op = "generate_thumbnail"
            /\ ~IsImage(inv'[p].item.originalKey) \/ IsProcessed(inv'[p].item.originalKey) ) =>
             /\ inv'[p].pc = "done"
             /\ inv'[p].resp.statusCode = 200
             /\ bucket' = bucket]_vars

\* the generator was invoked for a thumbnail it wrote, and for a text file
C19_Witness ==
    \E p \in Procs :
        /\ Done(p, "generate_thumbnail")
        /\ inv[p].item.originalKey[1] = "thumbnails"
        /\ inv[p].item.originalKey \in bucket
        /\ Key("uploads", inv[p].photoId, "txt") \in bucket \ events

\* the invocation was sent an identifier that is no UUID
SentMalformed(me) ==
    /\ me.op \in {"create_photo", "get_photo", "update_photo", "delete_photo",
                  "bulk_update_photos", "update_site_settings"}
    /\ \/ me.photoId \in MalformedIds
       \/ \E i \in 1..Len(me.ids) : me.ids[i] \in MalformedIds

\* C20: a request with an identifier that is no version-4 UUID is answered
\* 400 ValidationError in its first step, and neither store ever holds an
\* item for or a reference to such an identifier.
C20_IdentifierValidated ==
    /\ \A p \in Procs :
          SentMalformed(inv[p]) =>
             /\ inv[p].pc = "done"
             /\ inv[p].resp.statusCode = 400
             /\ inv[p].resp.errorType = "ValidationError"
    /\ DOMAIN table \cap MalformedIds = {}
    /\ \A sid \in DOMAIN settings : settings[sid].heroPhotoId \notin MalformedIds

\* C21: every response of every handler carries an Access-Control-Allow-Origin
\* header that is a member of the origin allow-list: the request's Origin
\* when that origin is in the list, the default site origin otherwise.
C21_AllowOriginFromAllowList ==
    http.answered =>
        /\ http.allowOrigin \in allowed_origins
        /\ http.allowOrigin # "*"
        /\ IF http.origin \in allowed_origins
             THEN http.allowOrigin = http.origin
             ELSE http.allowOrigin = DefaultOrigin

\* the contact form was submitted with a well-formed body
ContactValidated ==
    /\ mail.pc = "done"
    /\ mail.body.json
    /\ ~MissingRequiredFields(mail.body)
    /\ ~InvalidEmailAddress(mail.body)

\* C23: a contact form submission that passes validation while the sender
\* address or the recipient list is not set in the environment is answered
\* 500 ConfigurationError, and ses.send_email is not called for it.
C23_MissingConfigurationRefused ==
    (ContactValidated /\ (mail.SENDER_EMAIL = Unset \/ mail.RECIPIENT_EMAILS = Unset)) =>
        /\ mail.statusCode = 500
        /\ mail.errorType = "ConfigurationError"
        /\ mail.calls = 0
        /\ mail.sent = 0

\* C22: every photo record whose status is archived has archivedAt set,
\* whichever request made it archived.
C22_ArchivedHasArchivedAt ==
    \A id \in DOMAIN table :
        table[id].status = "archived" => table[id].archivedAt # NoTime

\* both requests of a race are answered, and they are update_photo with
\* update_photo or update_photo with delete_photo
RaceOver ==
    /\ \A p \in Procs : inv[p].pc = "done"
    /\ {inv[1].op, inv[2].op} \in {{"update_photo"}, {"update_photo", "delete_photo"}}

\* the stores the first request of the race found
RaceStart == Stores(TRUE, inv[1].item.status, inv[1].item.originalKey, inv[1].before)

\* the stores now
RaceEnd ==
    Stores(Exists(1), Current(1).status, Current(1).originalKey, bucket)

\* C24: two requests that change the same photo record at the same time
\* (update_photo with update_photo, update_photo with delete_photo) leave,
\* in every interleaving of their steps, a record and a bucket that one of
\* the two sequential orders of the requests that succeeded leaves as well.
C24_RaceEquivalentToSequential ==
    RaceOver =>
        RaceEnd \in {RequestRun(RequestRun(RaceStart, inv[1]), inv[2]),
                     RequestRun(RequestRun(RaceStart, inv[2]), inv[1])}

\* C25: in every state, also between two steps of a request and after a
\* store call failed, the object key stored in a photo record names an
\* object that exists in the bucket.
C25_StoredKeyNamesAnObject ==
    \A id \in DOMAIN table :
        table[id].originalKey # NoKey => table[id].originalKey \in bucket

\* create_photo writes its item for a photo that already has a record
CreateOnExisting(p) ==
    /\ inv[p].op = "create_photo"
    /\ inv[p].pc = "cp_put_item"
    /\ inv'[p].pc = "done"
    /\ Exists(inv[p].photoId)

\* C26: create_photo called with the identifier of a photo that already has
\* a record leaves that record as it is: the status, the key, publishedAt
\* and archivedAt of a published or archived photo are never reset.
C26_CreateKeepsExistingRecord ==
    [][\A p \in Procs :
          CreateOnExisting(p) => table'[inv[p].photoId] = table[inv[p].photoId]]_vars

\* the objects of a photo, under any prefix
ObjectsOf(id, keys) == {k \in keys : k[2] = id}

\* the step that ends a permanent delete with success, every removal of the
\* request having succeeded
PermanentDeleteEnds(p) ==
    /\ inv[p].pc = "dp_delete_item"
    /\ inv'[p].pc = "done"
    /\ inv'[p].resp.statusCode = 200
    /\ inv[p].thumbDeleted
    /\ inv[p].displayDeleted

\* C27: when a permanent delete ends with success, whatever lifecycle path
\* the photo took before, the bucket holds no object of that photo under
\* uploads/, originals/, archive/, thumbnails/ or display/.
C27_PermanentDeleteLeavesNoObject ==
    [][\A p \in Procs :
          PermanentDeleteEnds(p) => ObjectsOf(inv[p].photoId, bucket') = {}]_vars

\* the step that ends an update_photo request with success
UpdatePhotoSucceeds(p) ==
    /\ inv[p].op = "update_photo"
    /\ inv[p].pc = "up_update_item"
    /\ inv'[p].pc = "done"
    /\ inv'[p].resp.statusCode = 200

\* C28: the status in a successful update_photo response is the status the
\* record holds after the request, for every status value requested.
C28_ResponseStatusIsStoredStatus ==
    [][\A p \in Procs :
          UpdatePhotoSucceeds(p) =>
              inv'[p].resp.status = table'[inv[p].photoId].status]_vars

\* the stored key of a record and the uploads/, thumbnails/ and display/
\* objects of its photo carry one file name, <id>.<ext>
SameFilename(id) ==
    LET key == table[id].originalKey
    IN  key # NoKey =>
          /\ key[2] = id
          /\ \A k \in bucket :
                (k[2] = id /\ k[1] \in {"uploads", "thumbnails", "display"})
                   => basename(k) = basename(key)

\* no step changes the file name part of a stored key
FilenameKept(id) ==
    (table[id].originalKey # NoKey /\ table'[id].originalKey # NoKey)
       => basename(table'[id].originalKey) = basename(table[id].originalKey)

\* C29: the file name part of the key stored in a photo record is the file
\* name of the original upload, <id>.<ext>, in every status, so that the
\* thumbnails/ and display/ keys derived from the stored key are the keys
\* the thumbnail generator wrote.
C29_StoredFilenameIsUploadFilename ==
    /\ [](\A id \in DOMAIN table : SameFilename(id))
    /\ [][\A id \in DOMAIN table \cap DOMAIN table' : FilenameKept(id)]_vars

\* an uploaded photo that was published and then archived, with the
\* generator's objects under the keys derived from its archive/ key
C29_Witness ==
    \E id \in DOMAIN table :
        /\ id \in issued
        /\ table[id].status = "archived"
        /\ table[id].publishedAt # NoTime
        /\ table[id].originalKey # NoKey
        /\ table[id].originalKey[1] = "archive"
        /\ table[id].originalKey[3] = "png"
        /\ thumbnail_key(table[id].originalKey) \in bucket
        /\ display_key(table[id].originalKey) \in bucket

\* C30: for a source image of width and height at least 1 and a target
\* width of at least 1, the width and the height resize_image computes are
\* both at least 1 pixel.
C30_ComputedSizeAtLeastOnePixel ==
    (resize.called /\ resize.original_width >= 1 /\ resize.original_height >= 1
        /\ resize.max_width >= 1) =>
        /\ resize.new_width >= 1
        /\ resize.new_height >= 1

====
